---- MODULE Spec2Model ----
(***************************************************************************)
(* A model of swole (src/swole/main.py): the WorkingSet / MesoCycle        *)
(* arithmetic, the generators that expand a raw program description, the   *)
(* loader and the two presenters.                                          *)
(*                                                                         *)
(* Numbers.  A training max and a training-max increment are whole         *)
(* numbers.  A percent, a rounding unit and a weight are counted in        *)
(* quarters (Quarter of them make 1.0): 0.5 is 2, 2.5 is 10, 5.0 is 20.    *)
(* Every such value is a dyadic rational, so the float arithmetic of the   *)
(* source (product, floor division, sum) is exact on it and the model      *)
(* computes the same value.                                                *)
(*                                                                         *)
(* Optional[Numeric] is a set: None is {} and a supplied value v is {v}.   *)
(* tm is a number, as the signatures declare it.                           *)
(***************************************************************************)
EXTENDS Integers, Sequences, FiniteSets, TLC

VARIABLES
    call,       \* SpecCalc: the pure function applied and its arguments
    ret,        \* SpecCalc: what the call returned
    entries,    \* SpecGen: the raw set entries handed to generate_workingsets
    gen,        \* SpecGen: the position of the generator and what it has yielded
    doc,        \* SpecLoad: the document yaml.safe_load returned
    defect,     \* SpecLoad: the required field the document lacks, if any (ghost)
    load,       \* SpecLoad: load_program's position, locals and outcome
    program,    \* SpecPresent: the Program presented
    args,       \* SpecPresent: rounding and tm
    pres        \* SpecPresent: the presenter's position, locals and output

vars == <<call, ret, entries, gen, doc, defect, load, program, args, pres>>

\* what each group of operations leaves alone
notCalc == <<entries, gen, doc, defect, load, program, args, pres>>
notGen == <<call, ret, doc, defect, load, program, args, pres>>
notLoad == <<call, ret, entries, gen, program, args, pres>>
notPresent == <<call, ret, entries, gen, doc, defect, load>>

----------------------------------------------------------------------------
(* Numbers and optional values *)

Quarter == 4

None == {}
Some(v) == {v}
Val(o) == CHOOSE v \in o : TRUE

\* Python truth value of an Optional[Numeric]: None and 0 are false.
Truthy(o) == o # None /\ Val(o) # 0

\* The unit `rounding = 5.0` that mround falls back to, in quarters.
DefaultRounding == 5 * Quarter

\* `if rounding is None`: a unit of 0 is kept (the division error it then
\* causes is shown as the value coming back unrounded)
mround_default_kept_zero(value, rounding) ==
    LET r == IF rounding # None THEN Val(rounding) ELSE DefaultRounding
    IN  IF r = 0 THEN value ELSE (value \div r) * r

mround_ceiling(value, rounding) ==
    LET r == IF Truthy(rounding) THEN Val(rounding) ELSE DefaultRounding
    IN  (-((-value) \div r)) * r

\* mround: (float(value) // rounding) * rounding, rounding 5.0 when falsy.
\* Python's // on floats is floor division, as is \div.
mround(value, rounding) ==
    LET r == IF Truthy(rounding) THEN Val(rounding) ELSE DefaultRounding
    IN  (value \div r) * r

WorkingSet(percent, reps, amrap) ==
    [percent |-> percent, reps |-> reps, amrap |-> amrap]

\* WorkingSet.calculate_weight
calculate_weight(self, tm, rounding) ==
    IF Truthy(tm) THEN mround(Val(tm) * self.percent, rounding) ELSE self.percent

\* f'{weight:.1f}' of a weight in quarters: the nearest tenth, a tie going
\* to the even tenth (the value is exact in binary, so the tie is a true tie).
Format1f(weight) ==
    LET a      == IF weight < 0 THEN -weight ELSE weight
        q      == (a * 10) \div Quarter
        r      == (a * 10) % Quarter
        tenths == IF 2 * r < Quarter THEN q
                  ELSE IF 2 * r > Quarter THEN q + 1
                  ELSE IF q % 2 = 0 THEN q ELSE q + 1
    IN  (IF weight < 0 THEN "-" ELSE "")
            \o ToString(tenths \div 10) \o "." \o ToString(tenths % 10)

\* WorkingSet.stringify
stringify(self, tm, rounding) ==
    LET weight == calculate_weight(self, tm, rounding)
        reps   == IF self.amrap THEN ToString(self.reps) \o "+"
                  ELSE ToString(self.reps)
    IN  Format1f(weight) \o " x " \o reps

MesoCycle(name, micros, tm_inc) ==
    [name |-> name, micros |-> micros, tm_inc |-> tm_inc]

\* MesoCycle.effective_tm
effective_tm(self, tm) ==
    IF Truthy(tm) THEN Some(Val(tm) + self.tm_inc) ELSE None

----------------------------------------------------------------------------
(* SpecCalc: the pure functions applied to arguments drawn from bounded sets *)

MaxTm == 12
MaxPercent == 6
MaxUnit == 10
MaxValue == 45

TmValues == (0 .. MaxTm) \cup {100, 205, 215}
OptTm == {None} \cup {Some(t) : t \in TmValues}
UnitValues == (0 .. MaxUnit) \cup {5 * Quarter, 10 * Quarter}
OptRounding == {None} \cup {Some(u) : u \in UnitValues}
Percents == 1 .. MaxPercent
IncValues == {0, 5, 10}

WeightCalls ==
    { [op |-> op, self |-> WorkingSet(p, 10, a), tm |-> t, rounding |-> r] :
        op \in {"calculate_weight", "stringify"}, p \in Percents, a \in BOOLEAN,
        t \in OptTm, r \in OptRounding }

EtmCalls ==
    { [op |-> "effective_tm", self |-> MesoCycle("m1", <<>>, i), tm |-> t] :
        i \in IncValues, t \in OptTm }

MroundCalls ==
    { [op |-> "mround", value |-> v, rounding |-> r] :
        v \in (-MaxValue) .. MaxValue, r \in OptRounding }

Pending == [done |-> FALSE, val |-> None, text |-> ""]

CalcInit ==
    /\ call \in WeightCalls \cup EtmCalls \cup MroundCalls
    /\ ret = Pending

CallCalculateWeight ==
    /\ call.op = "calculate_weight" /\ ~ret.done
    /\ ret' = [done |-> TRUE,
               val |-> Some(calculate_weight(call.self, call.tm, call.rounding)),
               text |-> ""]
    /\ UNCHANGED <<call, notCalc>>

CallStringify ==
    /\ call.op = "stringify" /\ ~ret.done
    /\ ret' = [done |-> TRUE, val |-> None,
               text |-> stringify(call.self, call.tm, call.rounding)]
    /\ UNCHANGED <<call, notCalc>>

CallEffectiveTm ==
    /\ call.op = "effective_tm" /\ ~ret.done
    /\ ret' = [done |-> TRUE, val |-> effective_tm(call.self, call.tm), text |-> ""]
    /\ UNCHANGED <<call, notCalc>>

CallMround ==
    /\ call.op = "mround" /\ ~ret.done
    /\ ret' = [done |-> TRUE, val |-> Some(mround(call.value, call.rounding)),
               text |-> ""]
    /\ UNCHANGED <<call, notCalc>>

----------------------------------------------------------------------------
(* Raw data: a mapping is a function on the keys it holds *)

Has(m, k) == k \in DOMAIN m
Get(m, k, default) == IF Has(m, k) THEN m[k] ELSE default
Drop(m, k) == [x \in DOMAIN m \ {k} |-> m[x]]

NoError == [kind |-> "none", key |-> ""]
KeyError(k) == [kind |-> "KeyError", key |-> k]
ContractNotRespected == [kind |-> "ContractNotRespected", key |-> ""]

Ok(v) == [err |-> NoError, val |-> v]
Raise(e) == [err |-> e, val |-> <<>>]

RepeatOnce(x, n) == IF n = 0 THEN <<>> ELSE <<x>>

\* `for _ in range(n): yield x`, collected
Repeat(x, n) == [i \in 1 .. n |-> x]

repeat_count_at_least_one(ws) == IF Get(ws, "sets", 1) = 0 THEN 1 ELSE Get(ws, "sets", 1)

\* ws.get('sets', 1)
repeat_count(ws) == Get(ws, "sets", 1)

\* WorkingSet(amrap=ws.get('amrap', False), percent=ws['percent'], reps=ws['reps'])
workingset_of(ws) ==
    IF ~Has(ws, "percent") THEN Raise(KeyError("percent"))
    ELSE IF ~Has(ws, "reps") THEN Raise(KeyError("reps"))
    ELSE Ok(WorkingSet(ws.percent, ws.reps, Get(ws, "amrap", FALSE)))

----------------------------------------------------------------------------
(* SpecGen: generate_workingsets as the generator it is, drained by the
   list comprehension of generate_sessions *)

MaxEntries == 3

EntryChoices ==
    { [percent |-> 2, reps |-> 10],
      [percent |-> 3, reps |-> 5, sets |-> 0],
      [percent |-> 3, reps |-> 5, sets |-> 3],
      [percent |-> 4, reps |-> 3, sets |-> 2, amrap |-> TRUE],
      [percent |-> 2, reps |-> 10, amrap |-> FALSE, sets |-> 1],
      [reps |-> 10, sets |-> 2],
      [percent |-> 2, amrap |-> TRUE] }

EntrySeqs == UNION { [1 .. n -> EntryChoices] : n \in 0 .. MaxEntries }

GenInit ==
    /\ entries \in EntrySeqs
    /\ gen = [pc |-> "next", i |-> 1, left |-> 0, ws |-> <<>>, out |-> <<>>,
              err |-> NoError]

\* `for ws in workingsets:` takes the next entry and builds its WorkingSet
GenTake ==
    /\ gen.pc = "next" /\ gen.i <= Len(entries)
    /\ LET r == workingset_of(entries[gen.i])
       IN  gen' = IF r.err # NoError
                  THEN [gen EXCEPT !.pc = "raised", !.err = r.err]
                  ELSE [gen EXCEPT !.pc = "repeat", !.ws = r.val,
                                   !.left = repeat_count(entries[gen.i])]
    /\ UNCHANGED <<entries, notGen>>

\* `yield workingset`, appended by the consumer
GenYield ==
    /\ gen.pc = "repeat" /\ gen.left > 0
    /\ gen' = [gen EXCEPT !.out = Append(@, gen.ws), !.left = @ - 1]
    /\ UNCHANGED <<entries, notGen>>

\* range(...) is exhausted: on to the next entry
GenAdvance ==
    /\ gen.pc = "repeat" /\ gen.left <= 0
    /\ gen' = [gen EXCEPT !.pc = "next", !.i = @ + 1]
    /\ UNCHANGED <<entries, notGen>>

\* the entries are exhausted: the generator returns
GenStop ==
    /\ gen.pc = "next" /\ gen.i > Len(entries)
    /\ gen' = [gen EXCEPT !.pc = "done"]
    /\ UNCHANGED <<entries, notGen>>

----------------------------------------------------------------------------
(* The generators, as the lists their callers drain them into.  Each returns
   Ok(list) or Raise(error): an exception leaves the list comprehension and
   what had been yielded before it is dropped.  Their @contract
   ('program_data') holds of every argument below the top level, where each
   sequence of the documents drawn is a sequence of mappings. *)

RECURSIVE workingsets_from(_, _)
workingsets_from(workingsets, i) ==
    IF i > Len(workingsets) THEN Ok(<<>>)
    ELSE LET head == workingset_of(workingsets[i])
         IN  IF head.err # NoError THEN Raise(head.err)
             ELSE LET tail == workingsets_from(workingsets, i + 1)
                  IN  IF tail.err # NoError THEN Raise(tail.err)
                      ELSE Ok(Repeat(head.val, repeat_count(workingsets[i])) \o tail.val)

\* [ws for ws in generate_workingsets(workingsets)]
generate_workingsets(workingsets) == workingsets_from(workingsets, 1)

Session(name, sets) == [name |-> name, sets |-> sets]
MicroCycle(name, sessions) == [name |-> name, sessions |-> sessions]
Program(name, mesos) == [name |-> name, mesos |-> mesos]

\* the body of generate_sessions' loop: session['sets'] is read and expanded
\* before session['name'] is read
session_of(session) ==
    IF ~Has(session, "sets") THEN Raise(KeyError("sets"))
    ELSE LET r == generate_workingsets(session.sets)
         IN  IF r.err # NoError THEN Raise(r.err)
             ELSE IF ~Has(session, "name") THEN Raise(KeyError("name"))
             ELSE Ok(Session(session.name, r.val))

RECURSIVE sessions_from(_, _)
sessions_from(sessions, i) ==
    IF i > Len(sessions) THEN Ok(<<>>)
    ELSE LET head == session_of(sessions[i])
         IN  IF head.err # NoError THEN Raise(head.err)
             ELSE LET tail == sessions_from(sessions, i + 1)
                  IN  IF tail.err # NoError THEN Raise(tail.err)
                      ELSE Ok(<<head.val>> \o tail.val)

\* [session for session in generate_sessions(sessions)]
generate_sessions(sessions) == sessions_from(sessions, 1)

\* the body of generate_micros' loop
micro_of(micro) ==
    IF ~Has(micro, "sessions") THEN Raise(KeyError("sessions"))
    ELSE LET r == generate_sessions(micro.sessions)
         IN  IF r.err # NoError THEN Raise(r.err)
             ELSE IF ~Has(micro, "name") THEN Raise(KeyError("name"))
             ELSE Ok(MicroCycle(micro.name, r.val))

RECURSIVE micros_from(_, _)
micros_from(micros, i) ==
    IF i > Len(micros) THEN Ok(<<>>)
    ELSE LET head == micro_of(micros[i])
         IN  IF head.err # NoError THEN Raise(head.err)
             ELSE LET tail == micros_from(micros, i + 1)
                  IN  IF tail.err # NoError THEN Raise(tail.err)
                      ELSE Ok(<<head.val>> \o tail.val)

\* [micro for micro in generate_micros(micros)]
generate_micros(micros) == micros_from(micros, 1)

\* an error among the micros is swallowed and the meso built from nothing
meso_of_skips_bad_micros(meso) ==
    IF ~Has(meso, "micros") THEN Raise(KeyError("micros"))
    ELSE LET r == generate_micros(meso.micros)
         IN  IF ~Has(meso, "name") THEN Raise(KeyError("name"))
             ELSE Ok(MesoCycle(meso.name, r.val, Get(meso, "tm_inc", 0)))

\* the body of generate_mesos' loop; tm_inc is the dataclass default 0
\* unless the mapping holds it
meso_of(meso) ==
    IF ~Has(meso, "micros") THEN Raise(KeyError("micros"))
    ELSE LET r == generate_micros(meso.micros)
         IN  IF r.err # NoError THEN Raise(r.err)
             ELSE IF ~Has(meso, "name") THEN Raise(KeyError("name"))
             ELSE Ok(MesoCycle(meso.name, r.val, Get(meso, "tm_inc", 0)))

----------------------------------------------------------------------------
(* Documents.  The values of the top-level mapping carry their type, which
   the shape check of load_program reads; below it every sequence is a
   sequence of mappings. *)

Str(s) == [kind |-> "str", v |-> s]
Num(n) == [kind |-> "num", v |-> n]
SeqOfMaps(items) == [kind |-> "seq", v |-> items]

MapDoc(m) == [kind |-> "map", m |-> m]
NullDoc == [kind |-> "null", m |-> <<>>]

MaxMesos == 2
MaxMicros == 2
MaxSessions == 2
MaxSets == 2

LoadEntries ==
    { [percent |-> 2, reps |-> 10],
      [percent |-> 3, reps |-> 5, sets |-> 2, amrap |-> TRUE],
      [percent |-> 4, reps |-> 3, sets |-> 0] }

SetSeqs(choices) == UNION { [1 .. n -> choices] : n \in 0 .. MaxSets }

\* One sequence of MaxSets entries: a plain entry, then repeated ones.
FixedSets ==
    [e \in 1 .. MaxSets |->
        IF e = 1 THEN [percent |-> 2, reps |-> 10]
        ELSE [percent |-> 3, reps |-> 5, sets |-> 2, amrap |-> TRUE]]

\* The shape of a description: nm mesos of nu micros each; meso m has the
\* increment inc[m] (None: no tm_inc key); the u-th micro of a meso has sc[u]
\* sessions; every odd session of a micro has the raw sets c and every even
\* one has c without its first entry.
Shapes(setchoices, incchoices) ==
    UNION { [nm : {n}, nu : 0 .. MaxMicros, inc : [1 .. n -> incchoices],
             sc : [1 .. MaxMicros -> 0 .. MaxSessions],
             ss : { [s \in 1 .. MaxSessions |->
                        IF s % 2 = 1 \/ c = <<>> THEN c ELSE Tail(c)] : c \in setchoices }] :
            n \in 0 .. MaxMesos }

NoDefect == [at |-> <<0>>, field |-> "", how |-> "none"]
Missing(at, field) == [at |-> at, field |-> field, how |-> "missing"]

\* Every way one required field can be missing from a description of shape sh.
Defects(sh) ==
    { Missing(<<>>, f) : f \in {"name", "mesos"} }
    \cup { Missing(<<m>>, f) : m \in 1 .. sh.nm, f \in {"name", "micros"} }
    \cup UNION { { Missing(<<m, u>>, f) : u \in 1 .. sh.nu, f \in {"name", "sessions"} } :
                 m \in 1 .. sh.nm }
    \cup UNION { { Missing(<<m, u, s>>, f) :
                     s \in 1 .. sh.sc[u], f \in {"name", "sets"} } :
                 m \in 1 .. sh.nm, u \in 1 .. sh.nu }
    \cup UNION { UNION { { Missing(<<m, u, s, e>>, f) :
                             e \in 1 .. Len(sh.ss[s]), f \in {"percent", "reps"} } :
                         s \in 1 .. sh.sc[u] } :
                 m \in 1 .. sh.nm, u \in 1 .. sh.nu }

\* A top-level value of the wrong type: a number fails the shape check, a
\* (non-empty) string for mesos passes it and fails generate_mesos' contract.
TypeDefects ==
    { [at |-> <<>>, field |-> "name", how |-> "num"],
      [at |-> <<>>, field |-> "mesos", how |-> "num"],
      [at |-> <<>>, field |-> "mesos", how |-> "str"],
      [at |-> <<>>, field |-> "", how |-> "null"] }

Damaged(mapping, at, d) ==
    IF d.at = at /\ d.how = "missing" THEN Drop(mapping, d.field) ELSE mapping

RawSets(sh, d, m, u, s) ==
    [e \in 1 .. Len(sh.ss[s]) |-> Damaged(sh.ss[s][e], <<m, u, s, e>>, d)]

RawSession(sh, d, m, u, s) ==
    Damaged([name |-> "day" \o ToString(s), sets |-> RawSets(sh, d, m, u, s)],
            <<m, u, s>>, d)

RawMicro(sh, d, m, u) ==
    Damaged([name |-> "u" \o ToString(u),
             sessions |-> [s \in 1 .. sh.sc[u] |-> RawSession(sh, d, m, u, s)]],
            <<m, u>>, d)

RawMeso(sh, d, m) ==
    LET name   == "m" \o ToString(m)
        micros == [u \in 1 .. sh.nu |-> RawMicro(sh, d, m, u)]
    IN  Damaged(IF sh.inc[m] = None
                THEN [name |-> name, micros |-> micros]
                ELSE [name |-> name, micros |-> micros, tm_inc |-> Val(sh.inc[m])],
                <<m>>, d)

RawDocument(sh, d) ==
    LET mesos == [m \in 1 .. sh.nm |-> RawMeso(sh, d, m)]
        name  == IF d.at = <<>> /\ d.field = "name" /\ d.how = "num"
                 THEN Num(5) ELSE Str("P")
        value == IF d.at = <<>> /\ d.field = "mesos" /\ d.how = "num" THEN Num(5)
                 ELSE IF d.at = <<>> /\ d.field = "mesos" /\ d.how = "str" THEN Str("abc")
                 ELSE SeqOfMaps(mesos)
    IN  IF d.how = "null" THEN NullDoc
        ELSE MapDoc(Damaged([name |-> name, mesos |-> value], <<>>, d))

----------------------------------------------------------------------------
(* SpecLoad: load_program *)

\* the contract 'program_data': seq(map(str: *))
program_data(value) == value.kind = "seq"

shape_ok_requires_keys(document) ==
    /\ document.kind = "map"
    /\ Has(document.m, "name") /\ Has(document.m, "mesos")
    /\ \A k \in DOMAIN document.m :
          document.m[k].kind = "str" \/ program_data(document.m[k])

\* check('map(str: str|program_data)', program)
shape_ok(document) ==
    /\ document.kind = "map"
    /\ \A k \in DOMAIN document.m :
          document.m[k].kind = "str" \/ program_data(document.m[k])

LoadStart == [pc |-> "check", i |-> 1, mesos |-> <<>>, err |-> NoError, result |-> None]

\* Well-formed descriptions with every choice of raw sets, and descriptions
\* of fixed raw sets that lack one required field anywhere or hold a
\* top-level value of the wrong type.
LoadInit ==
    /\ \/ \E sh \in Shapes(SetSeqs(LoadEntries), {None}) :
            doc = RawDocument(sh, NoDefect) /\ defect = NoDefect
       \/ \E sh \in Shapes({FixedSets}, {Some(5)}) :
            \E d \in {NoDefect} \cup Defects(sh) \cup TypeDefects :
                doc = RawDocument(sh, d) /\ defect = d
    /\ load = LoadStart

\* line 185: the shape check
LoadCheck ==
    /\ load.pc = "check"
    /\ load' = IF shape_ok(doc) THEN [load EXCEPT !.pc = "enter"]
               ELSE [load EXCEPT !.pc = "error", !.err = ContractNotRespected]
    /\ UNCHANGED <<doc, defect, notLoad>>

\* line 186: program['mesos'] is read and generate_mesos called (its
\* contract checks the argument)
LoadEnter ==
    /\ load.pc = "enter"
    /\ load' = IF ~Has(doc.m, "mesos")
               THEN [load EXCEPT !.pc = "error", !.err = KeyError("mesos")]
               ELSE IF ~program_data(doc.m.mesos)
               THEN [load EXCEPT !.pc = "error", !.err = ContractNotRespected]
               ELSE [load EXCEPT !.pc = "mesos"]
    /\ UNCHANGED <<doc, defect, notLoad>>

\* line 186: the list comprehension takes the next MesoCycle of generate_mesos
LoadMeso ==
    /\ load.pc = "mesos" /\ load.i <= Len(doc.m.mesos.v)
    /\ LET r == meso_of(doc.m.mesos.v[load.i])
       IN  load' = IF r.err # NoError
                   THEN [load EXCEPT !.pc = "error", !.err = r.err]
                   ELSE [load EXCEPT !.mesos = Append(@, r.val), !.i = @ + 1]
    /\ UNCHANGED <<doc, defect, notLoad>>

\* line 187: return Program(program['name'], mesos)
LoadReturn ==
    /\ load.pc = "mesos" /\ load.i > Len(doc.m.mesos.v)
    /\ load' = IF ~Has(doc.m, "name")
               THEN [load EXCEPT !.pc = "error", !.err = KeyError("name")]
               ELSE [load EXCEPT !.pc = "done",
                                 !.result = Some(Program(doc.m.name.v, load.mesos))]
    /\ UNCHANGED <<doc, defect, notLoad>>

----------------------------------------------------------------------------
(* SpecPresent: Program.present and Program.present_table *)

RECURSIVE Concat(_, _)
\* the concatenation of the sequences seqs[i], seqs[i + 1], ...
Concat(seqs, i) == IF i > Len(seqs) THEN <<>> ELSE seqs[i] \o Concat(seqs, i + 1)

RECURSIVE Join(_, _, _)
\* sep.join(strings[i:])
Join(sep, strings, i) ==
    IF i > Len(strings) THEN ""
    ELSE IF i = Len(strings) THEN strings[i]
    ELSE strings[i] \o sep \o Join(sep, strings, i + 1)

RECURSIVE StrTimes(_, _)
\* c * n
StrTimes(c, n) == IF n <= 0 THEN "" ELSE c \o StrTimes(c, n - 1)

Max(a, b) == IF a >= b THEN a ELSE b
Min(a, b) == IF a <= b THEN a ELSE b

\* print(a, b, ...): the arguments separated by one space
PrintLine(parts) == Join(" ", parts, 1)

\* str.upper(), on the names the descriptions use (m1, u1, day1, ...)
Upper(name) ==
    LET idx == 1 .. (MaxMesos + MaxMicros + MaxSessions)
    IN  IF \E k \in idx : name = "m" \o ToString(k)
        THEN "M" \o ToString(CHOOSE k \in idx : name = "m" \o ToString(k))
        ELSE IF \E k \in idx : name = "u" \o ToString(k)
        THEN "U" \o ToString(CHOOSE k \in idx : name = "u" \o ToString(k))
        ELSE IF \E k \in idx : name = "day" \o ToString(k)
        THEN "DAY" \o ToString(CHOOSE k \in idx : name = "day" \o ToString(k))
        ELSE name

\* '=' * max(20, len(self.name)), printed around the name
HeaderLine(self) ==
    LET header == StrTimes("=", Max(20, Len(self.name)))
    IN  PrintLine(<<header, self.name, header>>)

\* ((s, u, m) for m in self.mesos for u in m.micros for s in u.sessions)
Flattened(self) ==
    Concat([m \in 1 .. Len(self.mesos) |->
              Concat([u \in 1 .. Len(self.mesos[m].micros) |->
                        [s \in 1 .. Len(self.mesos[m].micros[u].sessions) |->
                            [session |-> self.mesos[m].micros[u].sessions[s],
                             micro   |-> self.mesos[m].micros[u],
                             meso    |-> self.mesos[m]]]], 1)], 1)

\* str() of the float effective_tm returns (a whole number here)
FloatStr(x) == ToString(x) \o ".0"

\* lines 107-114: the banner of one session
BannerLine(item, tm) ==
    LET flattened_name == Join(".", <<Upper(item.meso.name), Upper(item.micro.name),
                                       Upper(item.session.name)>>, 1)
        banner == StrTimes("-", Min(10, Len(flattened_name)))
        etm    == effective_tm(item.meso, tm)
    IN  IF Truthy(tm)
        THEN PrintLine(<<banner, flattened_name, "[TM: " \o FloatStr(Val(etm)) \o "]", banner>>)
        ELSE PrintLine(<<banner, flattened_name, banner>>)

\* line 135: the text of one table cell
CellValue(meso, session, tm, rounding) ==
    Join("\n", [j \in 1 .. Len(session.sets) |->
                   stringify(session.sets[j], effective_tm(meso, tm), rounding)], 1)

\* lines 136-141: the cell is put into the table (numbers count from 0)
place_cell(table, session_number, micro_number, value) ==
    LET grown == IF Len(table) <= session_number THEN Append(table, <<>>) ELSE table
        row   == grown[session_number + 1]
    IN  IF Len(row) <= micro_number
        THEN [grown EXCEPT ![session_number + 1] = Append(row, value)]
        ELSE [grown EXCEPT ![session_number + 1] = [row EXCEPT ![micro_number + 1] = value]]

\* Programs: what the generators make of the well-formed descriptions
PresentShapes == Shapes({FixedSets}, {None, Some(5), Some(10)})

ProgramOf(sh) ==
    Program("P", [m \in 1 .. sh.nm |-> meso_of(RawMeso(sh, NoDefect, m)).val])

PresentArgs ==
    [rounding : {None, Some(10 * Quarter)}, tm : {None, Some(0), Some(100)},
     table : BOOLEAN]

PresentStart ==
    [pc |-> "header", i |-> 1, j |-> 1, m |-> 1, u |-> 1, s |-> 1,
     headers |-> <<>>, table |-> <<>>, out |-> <<>>, grids |-> <<>>]

PresentInit ==
    /\ program \in { ProgramOf(sh) : sh \in PresentShapes }
    /\ args \in PresentArgs
    /\ pres = PresentStart

\* lines 103-104
PrintHeader ==
    /\ pres.pc = "header" /\ ~args.table
    /\ pres' = [pres EXCEPT !.pc = "banner", !.out = Append(@, HeaderLine(program))]
    /\ UNCHANGED <<program, args, notPresent>>

\* lines 106-114: the next session of the flattened program, and its banner
PrintBanner ==
    /\ pres.pc = "banner" /\ pres.i <= Len(Flattened(program))
    /\ pres' = [pres EXCEPT !.pc = "sets", !.j = 1,
                   !.out = Append(@, BannerLine(Flattened(program)[pres.i], args.tm))]
    /\ UNCHANGED <<program, args, notPresent>>

\* lines 116-117: one line per working set
PrintSet ==
    /\ pres.pc = "sets"
    /\ LET item == Flattened(program)[pres.i]
       IN  /\ pres.j <= Len(item.session.sets)
           /\ LET text == stringify(item.session.sets[pres.j],
                                    effective_tm(item.meso, args.tm), args.rounding)
              IN  pres' = [pres EXCEPT !.j = @ + 1, !.out = Append(@, text)]
    /\ UNCHANGED <<program, args, notPresent>>

\* the sets of the session are exhausted
PrintNextSession ==
    /\ pres.pc = "sets"
    /\ pres.j > Len(Flattened(program)[pres.i].session.sets)
    /\ pres' = [pres EXCEPT !.pc = "banner", !.i = @ + 1]
    /\ UNCHANGED <<program, args, notPresent>>

PrintDone ==
    /\ pres.pc = "banner" /\ pres.i > Len(Flattened(program))
    /\ pres' = [pres EXCEPT !.pc = "done"]
    /\ UNCHANGED <<program, args, notPresent>>

\* lines 121-127 (tabulate is installed)
TableHeader ==
    /\ pres.pc = "header" /\ args.table
    /\ pres' = [pres EXCEPT !.pc = "meso", !.m = 1, !.out = Append(@, HeaderLine(program))]
    /\ UNCHANGED <<program, args, notPresent>>

\* lines 129-131
TableMeso ==
    /\ pres.pc = "meso" /\ pres.m <= Len(program.mesos)
    /\ pres' = [pres EXCEPT !.pc = "micro", !.u = 1, !.headers = <<>>, !.table = <<>>]
    /\ UNCHANGED <<program, args, notPresent>>

\* lines 132-133
TableMicro ==
    /\ pres.pc = "micro" /\ pres.u <= Len(program.mesos[pres.m].micros)
    /\ LET meso  == program.mesos[pres.m]
           micro == meso.micros[pres.u]
       IN  pres' = [pres EXCEPT !.pc = "session", !.s = 1,
                       !.headers = Append(@, Join(".", <<meso.name, micro.name>>, 1))]
    /\ UNCHANGED <<program, args, notPresent>>

\* lines 134-141
TableSession ==
    /\ pres.pc = "session"
    /\ pres.s <= Len(program.mesos[pres.m].micros[pres.u].sessions)
    /\ LET meso    == program.mesos[pres.m]
           session == meso.micros[pres.u].sessions[pres.s]
           value   == CellValue(meso, session, args.tm, args.rounding)
       IN  pres' = [pres EXCEPT !.s = @ + 1,
                       !.table = place_cell(@, pres.s - 1, pres.u - 1, value)]
    /\ UNCHANGED <<program, args, notPresent>>

\* the sessions of the micro-cycle are exhausted
TableNextMicro ==
    /\ pres.pc = "session"
    /\ pres.s > Len(program.mesos[pres.m].micros[pres.u].sessions)
    /\ pres' = [pres EXCEPT !.pc = "micro", !.u = @ + 1]
    /\ UNCHANGED <<program, args, notPresent>>

\* line 142: the table of the mesocycle is handed to tabulate and printed
TablePrint ==
    /\ pres.pc = "micro" /\ pres.u > Len(program.mesos[pres.m].micros)
    /\ pres' = [pres EXCEPT !.pc = "meso", !.m = @ + 1,
                   !.grids = Append(@, [headers |-> pres.headers, table |-> pres.table])]
    /\ UNCHANGED <<program, args, notPresent>>

TableDone ==
    /\ pres.pc = "meso" /\ pres.m > Len(program.mesos)
    /\ pres' = [pres EXCEPT !.pc = "done"]
    /\ UNCHANGED <<program, args, notPresent>>

\* tabulate: the text at row r, column c of a grid (numbers from 1); a row
\* shorter than the headers is padded at its end
GridCell(grid, r, c) ==
    IF r <= Len(grid.table) /\ c <= Len(grid.table[r]) THEN grid.table[r][c] ELSE ""

----------------------------------------------------------------------------
(* Specifications.  Each leaves the variables of the others at rest. *)

Idle == <<>>

CalcIdle == call = Idle /\ ret = Idle
GenIdle == entries = Idle /\ gen = Idle
LoadIdle == doc = Idle /\ defect = Idle /\ load = Idle
PresentIdle == program = Idle /\ args = Idle /\ pres = Idle

Init == CalcInit /\ GenIdle /\ LoadIdle /\ PresentIdle
Next ==
    \/ CallCalculateWeight
    \/ CallStringify
    \/ CallEffectiveTm
    \/ CallMround
Spec == Init /\ [][Next]_vars

InitGen == GenInit /\ CalcIdle /\ LoadIdle /\ PresentIdle
NextGen ==
    \/ GenTake
    \/ GenYield
    \/ GenAdvance
    \/ GenStop
SpecGen == InitGen /\ [][NextGen]_vars

InitLoad == LoadInit /\ CalcIdle /\ GenIdle /\ PresentIdle
NextLoad ==
    \/ LoadCheck
    \/ LoadEnter
    \/ LoadMeso
    \/ LoadReturn
SpecLoad == InitLoad /\ [][NextLoad]_vars

InitPresent == PresentInit /\ CalcIdle /\ GenIdle /\ LoadIdle
NextPresent ==
    \/ PrintHeader
    \/ PrintBanner
    \/ PrintSet
    \/ PrintNextSession
    \/ PrintDone
    \/ TableHeader
    \/ TableMeso
    \/ TableMicro
    \/ TableSession
    \/ TableNextMicro
    \/ TablePrint
    \/ TableDone
SpecPresent == InitPresent /\ [][NextPresent]_vars

----------------------------------------------------------------------------
(* The claims *)

RECURSIVE SumFrom(_, _)
\* numbers[i] + numbers[i + 1] + ...
SumFrom(numbers, i) == IF i > Len(numbers) THEN 0 ELSE numbers[i] + SumFrom(numbers, i + 1)

\* the repeat count a raw set entry asks for: `sets`, 1 when absent
AskedCopies(entry) == IF "sets" \in DOMAIN entry THEN entry.sets ELSE 1

\* the unit the specification rounds to: 5.0 when absent or zero
AskedUnit(rounding) ==
    IF rounding = None \/ rounding = Some(0) THEN 5 * Quarter ELSE Val(rounding)

\* v is value rounded down to a multiple of unit
IsRoundedDown(v, value, unit) == v % unit = 0 /\ v <= value /\ value < v + unit

C2_ZeroMaxIsSupplied ==
    (ret.done /\ call.op = "calculate_weight")
    => IF call.tm = None
       THEN ret.val = Some(call.self.percent)
       ELSE IsRoundedDown(Val(ret.val), Val(call.tm) * call.self.percent,
                          AskedUnit(call.rounding))

\* C3: effective_tm returns None when no base training max is given and
\* tm + tm_inc for every supplied base, 0 included.
C3_ZeroBaseIsSupplied ==
    (ret.done /\ call.op = "effective_tm")
    => IF call.tm = None
       THEN ret.val = None
       ELSE ret.val = Some(Val(call.tm) + call.self.tm_inc)

\* what C4 asks of the entries: for each, in order, AskedCopies equal
\* WorkingSets with amrap false unless given
AskedExpansion(raw) ==
    Concat([i \in 1 .. Len(raw) |->
              [k \in 1 .. AskedCopies(raw[i]) |->
                  [percent |-> raw[i].percent, reps |-> raw[i].reps,
                   amrap |-> IF "amrap" \in DOMAIN raw[i] THEN raw[i].amrap ELSE FALSE]]], 1)

\* C4: generate_workingsets yields, entry by entry in input order, `sets`
\* equal WorkingSets (1 when `sets` is absent, none when it is 0); while it
\* runs, what it has yielded is the expansion of the entries it has finished
\* plus the copies made of the current one.
C4_RepeatExpansion ==
    /\ gen.pc = "done"
       => /\ gen.out = AskedExpansion(entries)
          /\ generate_workingsets(entries) = Ok(gen.out)
    /\ gen.pc = "next" /\ gen.i <= Len(entries) + 1
       => gen.out = AskedExpansion(SubSeq(entries, 1, gen.i - 1))
    /\ gen.pc = "repeat"
       => /\ gen.left <= AskedCopies(entries[gen.i])
          /\ gen.out = AskedExpansion(SubSeq(entries, 1, gen.i - 1))
                         \o [k \in 1 .. (AskedCopies(entries[gen.i]) - gen.left) |-> gen.ws]

\* a plain entry, one with sets: 0 and one with sets: 3 give 1 + 0 + 3 sets
C4_Witness ==
    /\ gen.pc = "done"
    /\ entries = << [percent |-> 2, reps |-> 10],
                    [percent |-> 3, reps |-> 5, sets |-> 0],
                    [percent |-> 3, reps |-> 5, sets |-> 3] >>
    /\ gen.out = << WorkingSet(2, 10, FALSE), WorkingSet(3, 5, FALSE),
                    WorkingSet(3, 5, FALSE), WorkingSet(3, 5, FALSE) >>

\* the raw mesos of the document
RawMesos == doc.m.mesos.v

\* the sum over all raw set entries of the document of their repeat counts
AskedTotal ==
    SumFrom([m \in 1 .. Len(RawMesos) |->
      SumFrom([u \in 1 .. Len(RawMesos[m].micros) |->
        SumFrom([s \in 1 .. Len(RawMesos[m].micros[u].sessions) |->
          SumFrom([e \in 1 .. Len(RawMesos[m].micros[u].sessions[s].sets) |->
                     AskedCopies(RawMesos[m].micros[u].sessions[s].sets[e])], 1)], 1)], 1)], 1)

\* the number of WorkingSet entries of a Program
TotalSets(p) ==
    SumFrom([m \in 1 .. Len(p.mesos) |->
      SumFrom([u \in 1 .. Len(p.mesos[m].micros) |->
        SumFrom([s \in 1 .. Len(p.mesos[m].micros[u].sessions) |->
                   Len(p.mesos[m].micros[u].sessions[s].sets)], 1)], 1)], 1)

\* C5: a well-formed description loads, and the Program has the mesos, the
\* micros of each meso and the sessions of each micro of the description, in
\* its order (the names agree place by place), and as many WorkingSets in
\* all as the repeat counts of the raw set entries add up to.
C5_CountsPreserved ==
    /\ defect = NoDefect => load.pc # "error"
    /\ load.pc = "done"
       => LET p == Val(load.result)
          IN  /\ p.name = doc.m.name.v
              /\ Len(p.mesos) = Len(RawMesos)
              /\ \A m \in 1 .. Len(RawMesos) :
                    /\ p.mesos[m].name = RawMesos[m].name
                    /\ Len(p.mesos[m].micros) = Len(RawMesos[m].micros)
                    /\ \A u \in 1 .. Len(RawMesos[m].micros) :
                          /\ p.mesos[m].micros[u].name = RawMesos[m].micros[u].name
                          /\ Len(p.mesos[m].micros[u].sessions)
                               = Len(RawMesos[m].micros[u].sessions)
                          /\ \A s \in 1 .. Len(RawMesos[m].micros[u].sessions) :
                                p.mesos[m].micros[u].sessions[s].name
                                  = RawMesos[m].micros[u].sessions[s].name
              /\ TotalSets(p) = AskedTotal

\* two mesos of two micros, the first micro of one session and the second of
\* two, with a plain entry, a sets: 0 entry and a sets: 2 entry somewhere
C5_Witness ==
    /\ load.pc = "done" /\ defect = NoDefect
    /\ Len(RawMesos) = 2 /\ Len(RawMesos[1].micros) = 2
    /\ Len(RawMesos[1].micros[1].sessions) = 1
    /\ Len(RawMesos[1].micros[2].sessions) = 2
    /\ RawMesos[1].micros[2].sessions[1].sets
         = << [percent |-> 4, reps |-> 3, sets |-> 0],
              [percent |-> 3, reps |-> 5, sets |-> 2, amrap |-> TRUE] >>
    /\ TotalSets(Val(load.result)) = 2 * (2 + 2 + 2)

\* C6: when a required field is missing anywhere, load_program ends in an
\* error and returns nothing: it never reaches its return, whatever it had
\* built before the error; and a Program is returned only from the return.
C6_NoPartialProgram ==
    /\ defect.how = "missing"
       => /\ load.result = None
          /\ load.pc \in {"check", "enter", "mesos", "error"}
          /\ load.pc = "mesos" /\ load.i > Len(RawMesos) => ~Has(doc.m, "name")
    /\ load.pc = "error" => load.result = None /\ load.err # NoError
    /\ load.result # None => load.pc = "done" /\ defect = NoDefect

\* the second session of the second micro of the second meso lacks `sets`:
\* the first meso has been built when the error comes, and is not returned
C6_Witness ==
    /\ defect = Missing(<<2, 2, 2>>, "sets")
    /\ load.pc = "error" /\ Len(load.mesos) = 1 /\ load.result = None

C9_CellAtRowAndColumn ==
    (pres.pc = "done" /\ args.table)
    => \A m \in 1 .. Len(program.mesos) :
         \A u \in 1 .. Len(program.mesos[m].micros) :
           \A s \in 1 .. Len(program.mesos[m].micros[u].sessions) :
             GridCell(pres.grids[m], s, u)
               = CellValue(program.mesos[m], program.mesos[m].micros[u].sessions[s],
                           args.tm, args.rounding)

\* the line C10 asks for: the bare percent without a base training max, else
\* the weight for the base plus the mesocycle's own increment
AskedLine(meso, ws, tm, rounding) ==
    LET weight == IF tm = None THEN ws.percent
                  ELSE (((Val(tm) + meso.tm_inc) * ws.percent) \div AskedUnit(rounding))
                         * AskedUnit(rounding)
    IN  Format1f(weight) \o " x "
          \o ToString(ws.reps) \o (IF ws.amrap THEN "+" ELSE "")

\* the banner C10 asks for without a base training max: the dotted name
\* between two rules and no TM; with one, the banner is left as printed
AskedBanner(item, tm) ==
    LET name == Join(".", <<Upper(item.meso.name), Upper(item.micro.name),
                            Upper(item.session.name)>>, 1)
        rule == StrTimes("-", Min(10, Len(name)))
    IN  IF tm = None THEN PrintLine(<<rule, name, rule>>) ELSE BannerLine(item, tm)

\* the report C10 asks for: the header, then session by session in meso,
\* micro, session order a banner and one line per working set
AskedReport(self, tm, rounding) ==
    <<HeaderLine(self)>>
    \o Concat([i \in 1 .. Len(Flattened(self)) |->
                 LET item == Flattened(self)[i]
                 IN  <<AskedBanner(item, tm)>>
                     \o [j \in 1 .. Len(item.session.sets) |->
                           AskedLine(item.meso, item.session.sets[j], tm, rounding)]], 1)

\* C10: present prints the header, then per session in meso, micro, session
\* order a banner and one line per working set; a line is computed with the
\* base training max plus the increment of its own mesocycle, and without a
\* base training max shows the bare percent under a banner without TM.
C10_ReportPerMesocycle ==
    (pres.pc = "done" /\ ~args.table)
    => pres.out = AskedReport(program, args.tm, args.rounding)

====
